---- MODULE Spec2Model ----
(***************************************************************************)
(* Model of the table-storage batch pipeline of azure-data-tables:         *)
(*   AsyncTablesBaseClient._batch_send   (aio/_base_client_async.py)       *)
(*   AsyncTransportWrapper               (aio/_base_client_async.py)       *)
(*   TableServiceClient.get_table_client (_table_service_client.py)        *)
(*                                                                         *)
(* A call of _batch_send is a coroutine frame.  Frames are indexed by      *)
(* Frames; the locals of the coroutine are functions over Frames.          *)
(***************************************************************************)
EXTENDS Integers, Sequences, FiniteSets, TLC

\* ---------------------------------------------------------------- bounds
MaxFrames == 2      \* coroutine frames that may exist
MaxCalls == 3       \* _batch_send calls made in one behaviour
MaxOps == 2         \* operations submitted in one call
MaxParts == 2       \* sub-responses in one multipart response body
MaxAttempts == 2    \* attempts the pipeline makes for one request
MaxSends == 2       \* send() calls counted per transport
MaxWrappers == 2    \* wrappers created by get_table_client
MaxClients == 2     \* parent clients, each with its own transport
MaxCallers == 2     \* threads calling create_table / create_table_if_not_exists

Frames == 1..MaxFrames
Clients == 1..MaxClients
WrapperIds == 1..MaxWrappers
Callers == 1..MaxCallers

\* ------------------------------------------------------------ input sets
Operations == {"A", "B"}
Etags == {"e1", "e2"}
SubStatuses == {204, 404, 413, 400}
OuterStatuses == {202, 403, 404, 413, 500}
TableNames == {"t1", "t2"}

SeqsUpTo(S, n) == UNION {[1..k -> S] : k \in 0..n}

\* one decoded sub-response: a status code and its headers
Part == [status_code : SubStatuses, etag : Etags]
Bodies == SeqsUpTo(Part, MaxParts)
ShortBodies == SeqsUpTo(Part, 1)
\* the body of a response that is not 202 is never read; it is drawn from a
\* smaller set
Responses ==
    [status_code : {202}, body : Bodies]
        \cup [status_code : OuterStatuses \ {202}, body : ShortBodies]
OperationLists == SeqsUpTo(Operations, MaxOps)

VARIABLES
    pc,             \* frame -> "idle" | "awaiting" | "iterating" | "done"
    entities,       \* frame -> the entities argument
    reqs,           \* frame -> the *reqs argument
    request,        \* frame -> the outer request built by the call
    sent,           \* frame -> the requests put on the wire, one per attempt
    runs,           \* frame -> number of pipeline.run invocations of the call
    response,       \* frame -> pipeline_response.http_response
    parts_iter,     \* frame -> what response.parts() has still to yield
    parts,          \* frame -> the local list parts
    partsCalled,    \* frame -> response.parts() was invoked in this call
    outcome,        \* frame -> what the call returned or raised
    uuidsIssued,    \* number of uuid4() values handed out so far
    callsMade,      \* number of _batch_send calls started so far
    boundaryLog,    \* per call, in order: <<changeset boundary, batch boundary>>
    transportOpen,  \* client -> its transport is open
    transportSends, \* client -> number of send() calls its transport received
    wrappers,       \* wrapper id -> client whose transport it wraps, 0 if none
    lastOp,         \* last operation invoked on a wrapper or a client
    tables,         \* table name -> number of tables of that name in the account
    ctPc,           \* caller -> "idle" | "creating" | "done"
    ctOp,           \* caller -> the method it called
    ctName,         \* caller -> the table_name argument
    ctError,        \* caller -> what table.create_table raised, "none" if nothing
    ctResult        \* caller -> "returned", or the error the method raised

batchVars == <<pc, entities, reqs, request, sent, runs, response, parts_iter,
               parts, partsCalled, outcome, uuidsIssued, callsMade, boundaryLog>>
transportVars == <<transportOpen, transportSends, wrappers, lastOp>>
tableVars == <<tables, ctPc, ctOp, ctName, ctError, ctResult>>
vars == <<pc, entities, reqs, request, sent, runs, response, parts_iter,
          parts, partsCalled, outcome, uuidsIssued, callsMade, boundaryLog,
          transportOpen, transportSends, wrappers, lastOp,
          tables, ctPc, ctOp, ctName, ctError, ctResult>>

\* ------------------------------------------------------- pure operators
NoBoundary == <<"", 0>>
NoRequest == [method |-> "", url |-> "", boundary |-> NoBoundary, parts |-> <<>>]
NoResponse == [status_code |-> 0, body |-> <<>>]
NoOutcome == [kind |-> "none", pairs |-> <<>>, carriesParts |-> FALSE,
              parts |-> <<>>, response |-> NoResponse]

\* a mutant of uuid4: the same identifier every time
uuid4Constant(issued) == 1

\* uuid4(): a fresh identifier; the n-th value handed out is n
uuid4(issued) == issued + 1

\* the request object the caller built for one operation
BuildRequest(op) == [method |-> "OP", entity |-> op]
RequestsFor(ops) == [i \in 1..Len(ops) |-> BuildRequest(ops[i])]

\* a mutant of MakeChangeset: the last request is left out of the change set
MakeChangesetDropLast(rs, u) ==
    [method |-> "POST", url |-> "None", boundary |-> <<"changeset_", u>>,
     parts |-> IF rs = <<>> THEN rs ELSE SubSeq(rs, 1, Len(rs) - 1)]

\* HttpRequest("POST", None).set_multipart_mixed(*reqs, boundary="changeset_<uuid>")
MakeChangeset(rs, u) ==
    [method |-> "POST", url |-> "None", boundary |-> <<"changeset_", u>>, parts |-> rs]

\* a mutant of MakeBatchRequest: the change set is embedded twice
MakeBatchRequestTwice(changeset, u) ==
    [method |-> "POST", url |-> "/$batch", boundary |-> <<"batch_", u>>,
     parts |-> <<changeset, changeset>>]

\* self._client._client.post(url=".../$batch").set_multipart_mixed(changeset,
\*     boundary="batch_<uuid>")
MakeBatchRequest(changeset, u) ==
    [method |-> "POST", url |-> "/$batch", boundary |-> <<"batch_", u>>,
     parts |-> <<changeset>>]

Min(a, b) == IF a < b THEN a ELSE b

\* extract_batch_part_metadata(p): the metadata carried by the part's headers
extract_batch_part_metadata(p) == [etag |-> p.etag]

\* a mutant of Zip: pairs formed from the end of the second list
ZipReversed(es, ps) ==
    [i \in 1..Min(Len(es), Len(ps)) |->
        <<es[i], extract_batch_part_metadata(ps[Len(ps) + 1 - i])>>]

\* list(zip(entities, (extract_batch_part_metadata(p) for p in parts)))
Zip(es, ps) ==
    [i \in 1..Min(Len(es), Len(ps)) |-> <<es[i], extract_batch_part_metadata(ps[i])>>]

Raise(kind, resp, carries, ps) ==
    [kind |-> kind, pairs |-> <<>>, carriesParts |-> carries,
     parts |-> ps, response |-> resp]

Return(pairs) ==
    [kind |-> "returned", pairs |-> pairs, carriesParts |-> FALSE,
     parts |-> <<>>, response |-> NoResponse]

\* a mutant of OuterError: 413 is not told apart from the other statuses
OuterErrorNo413(resp) ==
    IF resp.status_code = 403
        THEN Raise("ClientAuthenticationError", resp, FALSE, <<>>)
    ELSE IF resp.status_code = 404
        THEN Raise("ResourceNotFoundError", resp, FALSE, <<>>)
    ELSE IF resp.status_code # 202
        THEN Raise("BatchErrorException", resp, FALSE, <<>>)
    ELSE NoOutcome

\* the checks of the outer status; NoOutcome when the status is 202
OuterError(resp) ==
    IF resp.status_code = 403
        THEN Raise("ClientAuthenticationError", resp, FALSE, <<>>)
    ELSE IF resp.status_code = 404
        THEN Raise("ResourceNotFoundError", resp, FALSE, <<>>)
    ELSE IF resp.status_code = 413
        THEN Raise("RequestTooLargeError", resp, FALSE, <<>>)
    ELSE IF resp.status_code # 202
        THEN Raise("BatchErrorException", resp, FALSE, <<>>)
    ELSE NoOutcome

InRange2xx(p) == 200 <= p.status_code /\ p.status_code < 300

\* a mutant of AnyFailed: only the first sub-response is inspected
AnyFailedFirstOnly(ps) == Len(ps) > 0 /\ ~InRange2xx(ps[1])

\* any(p for p in parts if not 200 <= p.status_code < 300)
AnyFailed(ps) == \E i \in 1..Len(ps) : ~InRange2xx(ps[i])

AnyStatus(ps, s) == \E i \in 1..Len(ps) : ps[i].status_code = s

\* a mutant of InnerError: 413 is looked for before 404
InnerError413First(ps, resp) ==
    IF AnyStatus(ps, 413)
        THEN Raise("RequestTooLargeError", resp, FALSE, <<>>)
    ELSE IF AnyStatus(ps, 404)
        THEN Raise("ResourceNotFoundError", resp, FALSE, <<>>)
    ELSE Raise("BatchErrorException", resp, TRUE, ps)

\* the error raised when some sub-response failed
InnerError(ps, resp) ==
    IF AnyStatus(ps, 404)
        THEN Raise("ResourceNotFoundError", resp, FALSE, <<>>)
    ELSE IF AnyStatus(ps, 413)
        THEN Raise("RequestTooLargeError", resp, FALSE, <<>>)
    ELSE Raise("BatchErrorException", resp, TRUE, ps)

\* a mutant of Demultiplex: a count of sub-responses that differs from the
\* count of entities is a batch failure
DemultiplexCountChecked(es, ps, resp) ==
    IF AnyFailed(ps) THEN InnerError(ps, resp)
    ELSE IF Len(ps) # Len(es) THEN Raise("BatchErrorException", resp, TRUE, ps)
    ELSE Return(Zip(es, ps))

\* what the call does once all sub-responses are in the list parts
Demultiplex(es, ps, resp) ==
    IF AnyFailed(ps) THEN InnerError(ps, resp) ELSE Return(Zip(es, ps))

\* ------------------------------------------------------------------ Init
Init ==
    /\ pc = [c \in Frames |-> "idle"]
    /\ entities = [c \in Frames |-> <<>>]
    /\ reqs = [c \in Frames |-> <<>>]
    /\ request = [c \in Frames |-> NoRequest]
    /\ sent = [c \in Frames |-> <<>>]
    /\ runs = [c \in Frames |-> 0]
    /\ response = [c \in Frames |-> NoResponse]
    /\ parts_iter = [c \in Frames |-> <<>>]
    /\ parts = [c \in Frames |-> <<>>]
    /\ partsCalled = [c \in Frames |-> FALSE]
    /\ outcome = [c \in Frames |-> NoOutcome]
    /\ uuidsIssued = 0
    /\ callsMade = 0
    /\ boundaryLog = <<>>
    /\ transportOpen = [t \in Clients |-> FALSE]
    /\ transportSends = [t \in Clients |-> 0]
    /\ wrappers = [w \in WrapperIds |-> 0]
    /\ lastOp = <<"none", 0>>
    /\ tables = [n \in TableNames |-> 0]
    /\ ctPc = [p \in Callers |-> "idle"]
    /\ ctOp = [p \in Callers |-> "none"]
    /\ ctName = [p \in Callers |-> "t1"]
    /\ ctError = [p \in Callers |-> "none"]
    /\ ctResult = [p \in Callers |-> "none"]

\* ------------------------------------------------------ _batch_send steps

\* a mutant of BatchSend: an empty operation list is rejected before sending
BatchSendRejectEmpty(c, es, rs) ==
    /\ pc[c] \in {"idle", "done"}
    /\ callsMade < MaxCalls
    /\ callsMade' = callsMade + 1
    /\ entities' = [entities EXCEPT ![c] = es]
    /\ reqs' = [reqs EXCEPT ![c] = rs]
    /\ response' = [response EXCEPT ![c] = NoResponse]
    /\ parts_iter' = [parts_iter EXCEPT ![c] = <<>>]
    /\ parts' = [parts EXCEPT ![c] = <<>>]
    /\ partsCalled' = [partsCalled EXCEPT ![c] = FALSE]
    /\ IF rs = <<>>
         THEN /\ request' = [request EXCEPT ![c] = NoRequest]
              /\ sent' = [sent EXCEPT ![c] = <<>>]
              /\ runs' = [runs EXCEPT ![c] = 0]
              /\ outcome' = [outcome EXCEPT ![c] =
                                Raise("ValidationError", NoResponse, FALSE, <<>>)]
              /\ pc' = [pc EXCEPT ![c] = "done"]
              /\ UNCHANGED <<uuidsIssued, boundaryLog>>
         ELSE LET u1 == uuid4(uuidsIssued)
                  u2 == uuid4(uuidsIssued + 1)
                  changeset == MakeChangeset(rs, u1)
                  req == MakeBatchRequest(changeset, u2)
              IN /\ uuidsIssued' = uuidsIssued + 2
                 /\ boundaryLog' = Append(boundaryLog, <<changeset.boundary, req.boundary>>)
                 /\ request' = [request EXCEPT ![c] = req]
                 /\ sent' = [sent EXCEPT ![c] = <<req>>]
                 /\ runs' = [runs EXCEPT ![c] = 1]
                 /\ outcome' = [outcome EXCEPT ![c] = NoOutcome]
                 /\ pc' = [pc EXCEPT ![c] = "awaiting"]
    /\ UNCHANGED transportVars
    /\ UNCHANGED tableVars

\* _batch_send(entities, *reqs) up to its await: the change set and the outer
\* request are built and handed to pipeline.run, which makes the first attempt
BatchSend(c, es, rs) ==
    /\ pc[c] \in {"idle", "done"}
    /\ callsMade < MaxCalls
    /\ callsMade' = callsMade + 1
    /\ LET u1 == uuid4(uuidsIssued)
           u2 == uuid4(uuidsIssued + 1)
           changeset == MakeChangeset(rs, u1)
           req == MakeBatchRequest(changeset, u2)
       IN /\ uuidsIssued' = uuidsIssued + 2
          /\ boundaryLog' = Append(boundaryLog, <<changeset.boundary, req.boundary>>)
          /\ request' = [request EXCEPT ![c] = req]
          /\ sent' = [sent EXCEPT ![c] = <<req>>]
    /\ entities' = [entities EXCEPT ![c] = es]
    /\ reqs' = [reqs EXCEPT ![c] = rs]
    /\ runs' = [runs EXCEPT ![c] = 1]
    /\ response' = [response EXCEPT ![c] = NoResponse]
    /\ parts_iter' = [parts_iter EXCEPT ![c] = <<>>]
    /\ parts' = [parts EXCEPT ![c] = <<>>]
    /\ partsCalled' = [partsCalled EXCEPT ![c] = FALSE]
    /\ outcome' = [outcome EXCEPT ![c] = NoOutcome]
    /\ pc' = [pc EXCEPT ![c] = "awaiting"]
    /\ UNCHANGED transportVars
    /\ UNCHANGED tableVars

\* inside pipeline.run: the retry policy of the pipeline makes another attempt
\* with the request object the call handed to run
PipelineRetry(c) ==
    /\ pc[c] = "awaiting"
    /\ Len(sent[c]) < MaxAttempts
    /\ sent' = [sent EXCEPT ![c] = Append(sent[c], request[c])]
    /\ UNCHANGED <<pc, entities, reqs, request, runs, response, parts_iter, parts,
                   partsCalled, outcome, uuidsIssued, callsMade, boundaryLog>>
    /\ UNCHANGED transportVars
    /\ UNCHANGED tableVars

\* the await of pipeline.run completes with resp; the outer status is checked
\* and, when it is 202, response.parts() is called
ReceiveResponse(c, resp) ==
    /\ pc[c] = "awaiting"
    /\ response' = [response EXCEPT ![c] = resp]
    /\ IF resp.status_code # 202
         THEN /\ outcome' = [outcome EXCEPT ![c] = OuterError(resp)]
              /\ pc' = [pc EXCEPT ![c] = "done"]
              /\ UNCHANGED <<parts_iter, parts, partsCalled>>
         ELSE /\ parts_iter' = [parts_iter EXCEPT ![c] = resp.body]
              /\ partsCalled' = [partsCalled EXCEPT ![c] = TRUE]
              /\ parts' = [parts EXCEPT ![c] = <<>>]
              /\ pc' = [pc EXCEPT ![c] = "iterating"]
              /\ UNCHANGED outcome
    /\ UNCHANGED <<entities, reqs, request, sent, runs, uuidsIssued, callsMade,
                   boundaryLog>>
    /\ UNCHANGED transportVars
    /\ UNCHANGED tableVars

\* a mutant of AppendPart: the list parts is shared by all the calls that
\* are decoding
AppendPartShared(c) ==
    /\ pc[c] = "iterating"
    /\ parts_iter[c] # <<>>
    /\ parts' = [d \in Frames |->
                    IF pc[d] = "iterating"
                        THEN Append(parts[d], Head(parts_iter[c]))
                        ELSE parts[d]]
    /\ parts_iter' = [parts_iter EXCEPT ![c] = Tail(parts_iter[c])]
    /\ UNCHANGED <<pc, entities, reqs, request, sent, runs, response, partsCalled,
                   outcome, uuidsIssued, callsMade, boundaryLog>>
    /\ UNCHANGED transportVars
    /\ UNCHANGED tableVars

\* one iteration of "async for p in parts_iter": parts.append(p)
AppendPart(c) ==
    /\ pc[c] = "iterating"
    /\ parts_iter[c] # <<>>
    /\ parts' = [parts EXCEPT ![c] = Append(parts[c], Head(parts_iter[c]))]
    /\ parts_iter' = [parts_iter EXCEPT ![c] = Tail(parts_iter[c])]
    /\ UNCHANGED <<pc, entities, reqs, request, sent, runs, response, partsCalled,
                   outcome, uuidsIssued, callsMade, boundaryLog>>
    /\ UNCHANGED transportVars
    /\ UNCHANGED tableVars

\* the iterator is exhausted: the sub-responses are classified and the call
\* returns or raises
FinishDecode(c) ==
    /\ pc[c] = "iterating"
    /\ parts_iter[c] = <<>>
    /\ outcome' = [outcome EXCEPT ![c] = Demultiplex(entities[c], parts[c], response[c])]
    /\ pc' = [pc EXCEPT ![c] = "done"]
    /\ UNCHANGED <<entities, reqs, request, sent, runs, response, parts_iter, parts,
                   partsCalled, uuidsIssued, callsMade, boundaryLog>>
    /\ UNCHANGED transportVars
    /\ UNCHANGED tableVars

\* Spec: one task that awaits each call before it makes the next one, so
\* every call runs in the frame of that task
MainFrames == {1}

Next ==
    \/ \E c \in MainFrames, ops \in OperationLists :
          BatchSend(c, ops, RequestsFor(ops))
    \/ \E c \in MainFrames : PipelineRetry(c)
    \/ \E c \in MainFrames, resp \in Responses : ReceiveResponse(c, resp)
    \/ \E c \in MainFrames : AppendPart(c)
    \/ \E c \in MainFrames : FinishDecode(c)

Spec == Init /\ [][Next]_vars

\* ---------------------------------------------------- concurrent callers

\* SpecConcurrent: several tasks of one event loop call _batch_send on the
\* same client; every frame may be in a call at the same time.  The inputs
\* are drawn from smaller sets than in Spec, and the pipeline answers every
\* request after one attempt.
ConcurrentOperationLists == {<<"A">>, <<"B">>}
ConcurrentParts ==
    {[status_code |-> 204, etag |-> "e1"], [status_code |-> 404, etag |-> "e2"]}
ConcurrentBodies == SeqsUpTo(ConcurrentParts, 1)
ConcurrentResponses ==
    [status_code : {202}, body : ConcurrentBodies]
        \cup {[status_code |-> 403, body |-> <<>>]}

NextConcurrent ==
    \/ \E c \in Frames, ops \in ConcurrentOperationLists :
          BatchSend(c, ops, RequestsFor(ops))
    \/ \E c \in Frames, resp \in ConcurrentResponses : ReceiveResponse(c, resp)
    \/ \E c \in Frames : AppendPart(c)
    \/ \E c \in Frames : FinishDecode(c)

SpecConcurrent == Init /\ [][NextConcurrent]_vars

\* ------------------------------------------------- transport and wrapper

\* AsyncTablesBaseClient.__aenter__: enters the generated client, which opens
\* the transport of its pipeline
ClientEnter(t) ==
    /\ transportOpen' = [transportOpen EXCEPT ![t] = TRUE]
    /\ lastOp' = <<"client.__aenter__", t>>
    /\ UNCHANGED <<transportSends, wrappers>>
    /\ UNCHANGED batchVars
    /\ UNCHANGED tableVars

\* AsyncTablesBaseClient.__aexit__: leaves the generated client
ClientExit(t) ==
    /\ transportOpen' = [transportOpen EXCEPT ![t] = FALSE]
    /\ lastOp' = <<"client.__aexit__", t>>
    /\ UNCHANGED <<transportSends, wrappers>>
    /\ UNCHANGED batchVars
    /\ UNCHANGED tableVars

\* AsyncTablesBaseClient.close: closes the sockets opened by the client
ClientClose(t) ==
    /\ transportOpen' = [transportOpen EXCEPT ![t] = FALSE]
    /\ lastOp' = <<"client.close", t>>
    /\ UNCHANGED <<transportSends, wrappers>>
    /\ UNCHANGED batchVars
    /\ UNCHANGED tableVars

\* get_table_client: the new client's pipeline gets a wrapper around the
\* transport of the parent's pipeline
GetTableClient(t, w) ==
    /\ wrappers[w] = 0
    /\ wrappers' = [wrappers EXCEPT ![w] = t]
    /\ lastOp' = <<"get_table_client", w>>
    /\ UNCHANGED <<transportOpen, transportSends>>
    /\ UNCHANGED batchVars
    /\ UNCHANGED tableVars

\* AsyncTransportWrapper.send: return await self._transport.send(request)
WrapperSend(w) ==
    /\ wrappers[w] # 0
    /\ transportSends[wrappers[w]] < MaxSends
    /\ transportSends' = [transportSends EXCEPT ![wrappers[w]] = @ + 1]
    /\ lastOp' = <<"wrapper.send", w>>
    /\ UNCHANGED <<transportOpen, wrappers>>
    /\ UNCHANGED batchVars
    /\ UNCHANGED tableVars

\* AsyncTransportWrapper.open: pass
WrapperOpen(w) ==
    /\ wrappers[w] # 0
    /\ lastOp' = <<"wrapper.open", w>>
    /\ UNCHANGED <<transportOpen, transportSends, wrappers>>
    /\ UNCHANGED batchVars
    /\ UNCHANGED tableVars

\* a mutant of WrapperClose: closing the wrapper closes the wrapped transport
WrapperCloseThrough(w) ==
    /\ wrappers[w] # 0
    /\ transportOpen' = [transportOpen EXCEPT ![wrappers[w]] = FALSE]
    /\ lastOp' = <<"wrapper.close", w>>
    /\ UNCHANGED <<transportSends, wrappers>>
    /\ UNCHANGED batchVars
    /\ UNCHANGED tableVars

\* AsyncTransportWrapper.close: pass
WrapperClose(w) ==
    /\ wrappers[w] # 0
    /\ lastOp' = <<"wrapper.close", w>>
    /\ UNCHANGED <<transportOpen, transportSends, wrappers>>
    /\ UNCHANGED batchVars
    /\ UNCHANGED tableVars

\* AsyncTransportWrapper.__aenter__: pass
WrapperEnter(w) ==
    /\ wrappers[w] # 0
    /\ lastOp' = <<"wrapper.__aenter__", w>>
    /\ UNCHANGED <<transportOpen, transportSends, wrappers>>
    /\ UNCHANGED batchVars
    /\ UNCHANGED tableVars

\* AsyncTransportWrapper.__aexit__: pass
WrapperExit(w) ==
    /\ wrappers[w] # 0
    /\ lastOp' = <<"wrapper.__aexit__", w>>
    /\ UNCHANGED <<transportOpen, transportSends, wrappers>>
    /\ UNCHANGED batchVars
    /\ UNCHANGED tableVars

NextTransport ==
    \/ \E t \in Clients : ClientEnter(t)
    \/ \E t \in Clients : ClientExit(t)
    \/ \E t \in Clients : ClientClose(t)
    \/ \E t \in Clients, w \in WrapperIds : GetTableClient(t, w)
    \/ \E w \in WrapperIds : WrapperSend(w)
    \/ \E w \in WrapperIds : WrapperOpen(w)
    \/ \E w \in WrapperIds : WrapperClose(w)
    \/ \E w \in WrapperIds : WrapperEnter(w)
    \/ \E w \in WrapperIds : WrapperExit(w)

SpecTransport == Init /\ [][NextTransport]_vars
\* ------------------------------------------- create_table(_if_not_exists)

CreateMethods == {"create_table", "create_table_if_not_exists"}

\* what table.create_table(**kwargs) raises: the other failure when the
\* request fails, ResourceExistsError when the account has the table,
\* nothing ("none") when the table is created
TableClientCreateError(n, fails) ==
    IF fails THEN "HttpResponseError"
    ELSE IF tables[n] > 0 THEN "ResourceExistsError"
    ELSE "none"

\* create_table: table.create_table(**kwargs); return table
HandleCreate(err) == IF err = "none" THEN "returned" ELSE err

\* a mutant of HandleCreateIfNotExists: every exception is swallowed
HandleCreateSwallowAll(err) == "returned"

\* create_table_if_not_exists: try: table.create_table(**kwargs)
\* except ResourceExistsError: pass; return table
HandleCreateIfNotExists(err) ==
    IF err = "none" \/ err = "ResourceExistsError" THEN "returned" ELSE err

\* the first statement of both methods:
\* table = self.get_table_client(table_name=table_name)
StartCreate(p, method, n) ==
    /\ ctPc[p] \in {"idle", "done"}
    /\ ctPc' = [ctPc EXCEPT ![p] = "creating"]
    /\ ctOp' = [ctOp EXCEPT ![p] = method]
    /\ ctName' = [ctName EXCEPT ![p] = n]
    /\ ctError' = [ctError EXCEPT ![p] = "none"]
    /\ ctResult' = [ctResult EXCEPT ![p] = "none"]
    /\ UNCHANGED tables
    /\ UNCHANGED batchVars
    /\ UNCHANGED transportVars

\* the rest of create_table: the service is asked to create the table and
\* whatever table.create_table raises reaches the caller
CreateTable(p, fails) ==
    /\ ctPc[p] = "creating"
    /\ ctOp[p] = "create_table"
    /\ LET err == TableClientCreateError(ctName[p], fails)
       IN /\ tables' = IF err = "none"
                          THEN [tables EXCEPT ![ctName[p]] = @ + 1]
                          ELSE tables
          /\ ctError' = [ctError EXCEPT ![p] = err]
          /\ ctResult' = [ctResult EXCEPT ![p] = HandleCreate(err)]
    /\ ctPc' = [ctPc EXCEPT ![p] = "done"]
    /\ UNCHANGED <<ctOp, ctName>>
    /\ UNCHANGED batchVars
    /\ UNCHANGED transportVars

\* the rest of create_table_if_not_exists: the service is asked to create
\* the table inside the try block
CreateTableIfNotExists(p, fails) ==
    /\ ctPc[p] = "creating"
    /\ ctOp[p] = "create_table_if_not_exists"
    /\ LET err == TableClientCreateError(ctName[p], fails)
       IN /\ tables' = IF err = "none"
                          THEN [tables EXCEPT ![ctName[p]] = @ + 1]
                          ELSE tables
          /\ ctError' = [ctError EXCEPT ![p] = err]
          /\ ctResult' = [ctResult EXCEPT ![p] = HandleCreateIfNotExists(err)]
    /\ ctPc' = [ctPc EXCEPT ![p] = "done"]
    /\ UNCHANGED <<ctOp, ctName>>
    /\ UNCHANGED batchVars
    /\ UNCHANGED transportVars

NextTables ==
    \/ \E p \in Callers, method \in CreateMethods, n \in TableNames :
          StartCreate(p, method, n)
    \/ \E p \in Callers, fails \in BOOLEAN : CreateTable(p, fails)
    \/ \E p \in Callers, fails \in BOOLEAN : CreateTableIfNotExists(p, fails)

SpecTables == Init /\ [][NextTables]_vars

\* ---------------------------------------------------------------- claims

Errors == {"ClientAuthenticationError", "ResourceNotFoundError",
           "RequestTooLargeError", "BatchErrorException"}

All2xx(body) == \A i \in 1..Len(body) : InRange2xx(body[i])

\* C1: a call with N >= 1 operations whose response is 202 and holds N
\* sub-responses, all of them 2xx, returns exactly N pairs, and the i-th pair
\* is (i-th operation, metadata of the i-th sub-response of the response).
C1_OrderedPairs ==
    \A c \in Frames :
        (/\ pc[c] = "done"
         /\ entities[c] # <<>>
         /\ response[c].status_code = 202
         /\ Len(response[c].body) = Len(entities[c])
         /\ All2xx(response[c].body))
        => /\ outcome[c].kind = "returned"
           /\ Len(outcome[c].pairs) = Len(entities[c])
           /\ \A i \in 1..Len(entities[c]) :
                 outcome[c].pairs[i] =
                     <<entities[c][i], extract_batch_part_metadata(response[c].body[i])>>

C1_Witness ==
    \E c \in Frames :
        /\ pc[c] = "done"
        /\ Len(entities[c]) = 2
        /\ entities[c][1] # entities[c][2]
        /\ response[c].status_code = 202
        /\ Len(response[c].body) = 2
        /\ All2xx(response[c].body)
        /\ response[c].body[1].etag # response[c].body[2].etag
        /\ outcome[c].kind = "returned"

ExpectedOuterKind(s) ==
    IF s = 403 THEN "ClientAuthenticationError"
    ELSE IF s = 404 THEN "ResourceNotFoundError"
    ELSE IF s = 413 THEN "RequestTooLargeError"
    ELSE "BatchErrorException"

\* C2: when the outer status is not 202 the call has failed, response.parts()
\* was not invoked, and the error kind is the one the outer status selects:
\* 403 authentication, 404 not found, 413 too large, otherwise batch failure.
C2_OuterStatusDecides ==
    \A c \in Frames :
        (response[c].status_code \notin {0, 202})
        => /\ pc[c] = "done"
           /\ ~partsCalled[c]
           /\ parts[c] = <<>>
           /\ outcome[c].kind = ExpectedOuterKind(response[c].status_code)

C2_Witness ==
    \E c \in Frames :
        /\ pc[c] = "done"
        /\ response[c].status_code = 413
        /\ response[c].body # <<>>
        /\ ~partsCalled[c]
        /\ outcome[c].kind = "RequestTooLargeError"

SomeSubResponseFailed(c) ==
    /\ pc[c] = "done"
    /\ response[c].status_code = 202
    /\ AnyFailed(response[c].body)

\* C3: when the outer status is 202, the response holds one sub-response per
\* submitted operation and some sub-response is not 2xx, the error raised,
\* whatever its kind, carries the full ordered list of decoded sub-responses,
\* and that list is as long as the list of submitted operations.
C3_ErrorCarriesSubResponses ==
    \A c \in Frames :
        (SomeSubResponseFailed(c) /\ Len(response[c].body) = Len(entities[c]))
        => /\ outcome[c].kind \in Errors
           /\ outcome[c].carriesParts
           /\ outcome[c].parts = response[c].body
           /\ Len(outcome[c].parts) = Len(entities[c])

ExpectedInnerKind(body) ==
    IF AnyStatus(body, 404) THEN "ResourceNotFoundError"
    ELSE IF AnyStatus(body, 413) THEN "RequestTooLargeError"
    ELSE "BatchErrorException"

\* C4: when the outer status is 202 and some sub-response is not 2xx, the
\* error kind is not-found if any sub-response is 404, else too-large if any
\* is 413, else batch failure, wherever those sub-responses stand in the list.
C4_InnerPriority ==
    \A c \in Frames :
        SomeSubResponseFailed(c)
        => outcome[c].kind = ExpectedInnerKind(response[c].body)

C4_Witness ==
    \E c \in Frames :
        /\ SomeSubResponseFailed(c)
        /\ Len(response[c].body) = 2
        /\ response[c].body[1].status_code = 413
        /\ response[c].body[2].status_code = 404
        /\ outcome[c].kind = "ResourceNotFoundError"

\* C5 (as claimed): a call with an empty operation list fails with a
\* validation error and never invokes pipeline.run.
C5_EmptyRejected ==
    \A c \in Frames :
        (pc[c] # "idle" /\ reqs[c] = <<>>)
        => /\ outcome[c].kind = "ValidationError"
           /\ runs[c] = 0

\* C5 (amended): a call with an empty operation list is not rejected: it
\* never raises a validation error, and it invokes pipeline.run once with a
\* request whose change set has no parts.
C5_EmptyIsSent ==
    \A c \in Frames :
        (pc[c] # "idle" /\ reqs[c] = <<>>)
        => /\ outcome[c].kind # "ValidationError"
           /\ runs[c] = 1
           /\ Len(sent[c]) >= 1
           /\ sent[c][1].url = "/$batch"
           /\ sent[c][1].parts[1].parts = <<>>

C5_Witness ==
    \E c \in Frames :
        /\ pc[c] = "done"
        /\ reqs[c] = <<>>
        /\ runs[c] = 1
        /\ response[c].status_code = 202
        /\ outcome[c].kind = "returned"

\* C6: the call returns a result only if the outer status is 202 and every
\* sub-response is 2xx; a finished call in any other case has raised one
\* error and holds no pair for any operation; an unfinished call has
\* returned nothing.
C6_NoPartialSuccess ==
    \A c \in Frames :
        /\ (outcome[c].kind = "returned")
              => /\ pc[c] = "done"
                 /\ response[c].status_code = 202
                 /\ All2xx(response[c].body)
        /\ (pc[c] = "done" /\ ~(response[c].status_code = 202 /\ All2xx(response[c].body)))
              => /\ outcome[c].kind \in Errors
                 /\ outcome[c].pairs = <<>>
        /\ (pc[c] # "done") => outcome[c] = NoOutcome

C6_Witness ==
    \E c \in Frames :
        /\ pc[c] = "done"
        /\ Len(entities[c]) = 2
        /\ response[c].status_code = 202
        /\ Len(response[c].body) = 2
        /\ InRange2xx(response[c].body[1])
        /\ ~InRange2xx(response[c].body[2])
        /\ outcome[c].kind = "BatchErrorException"
        /\ outcome[c].pairs = <<>>

\* C7: the attempts the pipeline makes for one call with at least one
\* operation carry pairwise different batch boundary tokens and pairwise
\* different changeset boundary tokens.
C7_RetryFreshEnvelope ==
    \A c \in Frames :
        reqs[c] # <<>> =>
            \A i, j \in 1..Len(sent[c]) :
                i < j => /\ sent[c][i].boundary # sent[c][j].boundary
                         /\ sent[c][i].parts[1].boundary # sent[c][j].parts[1].boundary

Tokens(entry) == {entry[1], entry[2]}

\* C8: every call generates two boundary tokens of its own, one prefixed
\* changeset_ and one prefixed batch_, which differ from each other and from
\* every token of every other call, and the call's request carries them.
C8_BoundariesUnique ==
    /\ Len(boundaryLog) = callsMade
    /\ \A i \in 1..Len(boundaryLog) :
          /\ boundaryLog[i][1][1] = "changeset_"
          /\ boundaryLog[i][2][1] = "batch_"
          /\ boundaryLog[i][1] # boundaryLog[i][2]
    /\ \A i, j \in 1..Len(boundaryLog) :
          i # j => Tokens(boundaryLog[i]) \cap Tokens(boundaryLog[j]) = {}
    /\ \A c \in Frames :
          pc[c] # "idle" =>
              \E i \in 1..Len(boundaryLog) :
                  boundaryLog[i] = <<request[c].parts[1].boundary, request[c].boundary>>

C8_Witness ==
    /\ Len(boundaryLog) >= 2
    /\ \E c \in Frames : pc[c] = "awaiting"

\* C9: every call, on every path, has invoked pipeline.run exactly once, with
\* one outer request whose single change set holds all the operation requests.
C9_OneRunPerCall ==
    \A c \in Frames :
        pc[c] # "idle"
        => /\ runs[c] = 1
           /\ Len(sent[c]) >= 1
           /\ sent[c][1] = request[c]
           /\ Len(request[c].parts) = 1
           /\ request[c].parts[1].parts = reqs[c]
           /\ Len(reqs[c]) = Len(entities[c])

C9_Witness ==
    \E c \in Frames :
        /\ pc[c] = "done"
        /\ Len(reqs[c]) = 2
        /\ runs[c] = 1
        /\ outcome[c].kind \in Errors

WrapperLifecycleOps ==
    {"wrapper.open", "wrapper.close", "wrapper.__aenter__", "wrapper.__aexit__"}

\* C10: open, close, enter and exit on a wrapper made by get_table_client
\* leave every transport in the open/closed state it had and send nothing;
\* send on the wrapper is received by the transport of the parent, and by
\* no other transport.
C10_WrapperNoOps ==
    [][/\ (lastOp'[1] \in WrapperLifecycleOps)
            => /\ transportOpen' = transportOpen
               /\ transportSends' = transportSends
               /\ wrappers' = wrappers
       /\ (lastOp'[1] = "wrapper.send")
            => /\ transportOpen' = transportOpen
               /\ wrappers[lastOp'[2]] \in Clients
               /\ transportSends' =
                     [transportSends EXCEPT ![wrappers[lastOp'[2]]] = @ + 1]
      ]_vars

C10_Witness ==
    /\ lastOp[1] = "wrapper.close"
    /\ wrappers[lastOp[2]] \in Clients
    /\ transportOpen[wrappers[lastOp[2]]]
    /\ transportSends[wrappers[lastOp[2]]] > 0

\* C11: a finished create_table_if_not_exists call has returned normally
\* when table.create_table raised nothing or ResourceExistsError, and the
\* account then holds exactly one table of that name; when table.create_table
\* raised any other error the call has raised that error; however the calls
\* repeat or interleave, no name ever has more than one table.
C11_CreateIfNotExists ==
    /\ \A n \in TableNames : tables[n] <= 1
    /\ \A p \in Callers :
          (ctPc[p] = "done" /\ ctOp[p] = "create_table_if_not_exists")
          => /\ (ctError[p] \in {"none", "ResourceExistsError"})
                    => /\ ctResult[p] = "returned"
                       /\ tables[ctName[p]] = 1
             /\ (ctError[p] \notin {"none", "ResourceExistsError"})
                    => ctResult[p] = ctError[p]

C11_Witness ==
    \E p, q \in Callers :
        /\ p # q
        /\ ctPc[p] = "done" /\ ctPc[q] = "done"
        /\ ctOp[p] = "create_table_if_not_exists"
        /\ ctOp[q] = "create_table_if_not_exists"
        /\ ctName[p] = ctName[q]
        /\ ctError[p] = "none"
        /\ ctError[q] = "ResourceExistsError"
        /\ ctResult[p] = "returned" /\ ctResult[q] = "returned"
        /\ tables[ctName[p]] = 1

\* C12: once the response of a call has arrived, no other call takes a step
\* until that call has returned or raised: the await of the response is the
\* only point where the call gives up control.
C12_SingleSuspensionPoint ==
    [][\A c \in Frames :
          (response[c] # NoResponse /\ pc[c] # "done")
          => \A d \in Frames \ {c} :
                /\ pc'[d] = pc[d]
                /\ response'[d] = response[d]
                /\ parts'[d] = parts[d]
                /\ outcome'[d] = outcome[d]
      ]_vars

\* the outcome of a call that runs alone with the entities es and the
\* response resp
AloneOutcome(es, resp) ==
    IF resp.status_code # 202
        THEN OuterError(resp)
        ELSE Demultiplex(es, resp.body, resp)

\* C13: however the calls interleave, a finished call has the outcome it
\* would have alone with its own entities and its own response; the list
\* parts of a decoding call holds sub-responses of its own response only;
\* and two calls in progress have different envelopes, each holding the
\* requests of its own call.
C13_CallsIndependent ==
    /\ \A c \in Frames :
          /\ pc[c] = "done" => outcome[c] = AloneOutcome(entities[c], response[c])
          /\ pc[c] = "iterating" => parts[c] \o parts_iter[c] = response[c].body
          /\ pc[c] # "idle" => request[c].parts[1].parts = reqs[c]
    /\ \A c, d \in Frames :
          (c # d /\ pc[c] # "idle" /\ pc[d] # "idle")
          => /\ request[c].boundary # request[d].boundary
             /\ request[c].parts[1].boundary # request[d].parts[1].boundary

C13_Witness ==
    \E c, d \in Frames :
        /\ c # d
        /\ pc[c] = "done"
        /\ outcome[c].kind = "returned"
        /\ outcome[c].pairs # <<>>
        /\ pc[d] = "iterating"
        /\ parts[d] # <<>>
        /\ parts[d] # response[c].body
        /\ entities[d] # entities[c]
        /\ request[d].boundary[2] < request[c].boundary[2]

\* C14: every attempt of a call is a POST to /$batch whose envelope, under a
\* batch_ boundary, holds exactly one sub-part, the change set; the change
\* set, under a changeset_ boundary, holds the request of every submitted
\* operation exactly once, in submission order, and nothing else.
C14_TwoLevelEnvelope ==
    \A c \in Frames :
        \A k \in 1..Len(sent[c]) :
            LET outer == sent[c][k]
            IN /\ outer.method = "POST"
               /\ outer.url = "/$batch"
               /\ outer.boundary[1] = "batch_"
               /\ Len(outer.parts) = 1
               /\ outer.parts[1].boundary[1] = "changeset_"
               /\ Len(outer.parts[1].parts) = Len(entities[c])
               /\ \A i \in 1..Len(entities[c]) :
                     outer.parts[1].parts[i] = BuildRequest(entities[c][i])

C14_Witness ==
    \E c \in Frames :
        /\ Len(sent[c]) >= 1
        /\ Len(entities[c]) = 2
        /\ entities[c][1] # entities[c][2]
        /\ Len(sent[c][1].parts) = 1
        /\ Len(sent[c][1].parts[1].parts) = 2

\* C15: when the outer status is 202 and all M sub-responses are 2xx with M
\* different from the number N of submitted operations, the call returns
\* normally with min(N, M) pairs, the i-th being (i-th operation, metadata of
\* the i-th sub-response); with M = 0 it returns the empty list.
C15_CountNotCompared ==
    \A c \in Frames :
        (/\ pc[c] = "done"
         /\ response[c].status_code = 202
         /\ All2xx(response[c].body)
         /\ Len(response[c].body) # Len(entities[c]))
        => /\ outcome[c].kind = "returned"
           /\ Len(outcome[c].pairs) = Min(Len(entities[c]), Len(response[c].body))
           /\ \A i \in 1..Len(outcome[c].pairs) :
                 outcome[c].pairs[i] =
                     <<entities[c][i], extract_batch_part_metadata(response[c].body[i])>>
           /\ response[c].body = <<>> => outcome[c].pairs = <<>>

C15_Witness ==
    \E c \in Frames :
        /\ pc[c] = "done"
        /\ Len(entities[c]) = 2
        /\ response[c].status_code = 202
        /\ Len(response[c].body) = 1
        /\ All2xx(response[c].body)
        /\ outcome[c].kind = "returned"
        /\ Len(outcome[c].pairs) = 1
====
